---- MODULE Spec2Model ----
(***************************************************************************)
(* A model of bc_node_srvr.py: one blockchain node (the Block and          *)
(* Blockchain classes and the Flask request handlers), served by a         *)
(* threaded server, so that the handlers interleave between the            *)
(* statements that read or write the shared ledger.                        *)
(*                                                                         *)
(* Strings of hexadecimal characters are sequences of naturals.  sha256    *)
(* is modelled as an ideal hash: the first `difficulty` characters of a    *)
(* digest are derived from the hashed text (each is 0 or 1 instead of one  *)
(* of sixteen values, so that the nonce search ends within 2^difficulty    *)
(* steps) and the rest of the digest is the text itself, which makes the   *)
(* digest collision free.                                                  *)
(***************************************************************************)
EXTENDS Integers, Sequences, FiniteSets, TLC

\* Blockchain.difficulty
difficulty == 2

\* Bounds of the model.
MaxTx == 2          \* transactions submitted to /new_transaction in a run
MaxChain == 2       \* longest chain built by /add_block and by the peers
MaxLedgers == 2     \* Blockchain objects constructed in a run
MaxNonce == 4       \* largest nonce a block is handed to proof_of_work with

\* The network addresses the node can learn.
Addrs == {"p1", "p2"}

\* What the peers put in their blocks.
RemoteTx == 0
RemoteTime == 1
\* time.time() of the node's own blocks.
LocalTime == 2

\* The attribute `hash` does not exist on the object.
NoHash == << >>
\* The literal "0".
Sentinel == <<0>>
\* No Block object.
NoBlock == [index |-> -1, transactions |-> << >>, timestamp |-> 0,
            previous_hash |-> << >>, nonce |-> 0, hash |-> NoHash]

RECURSIVE SumSeq(_)
SumSeq(s) == IF s = << >> THEN 0 ELSE Head(s) + SumSeq(Tail(s))

\* Block.__init__: the object has the five content attributes and no hash.
Block(index, transactions, timestamp, previous_hash, nonce) ==
    [index |-> index, transactions |-> transactions, timestamp |-> timestamp,
     previous_hash |-> previous_hash, nonce |-> nonce, hash |-> NoHash]

\* json.dumps(self.__dict__, sort_keys=True): every attribute the object has
\* at the time, the hash included once it was assigned, in key order
\* (hash, index, nonce, previous_hash, timestamp, transactions).
json_dumps(b) ==
    (IF b.hash = NoHash THEN <<0>> ELSE <<1, Len(b.hash)>> \o b.hash)
    \o <<b.index, b.nonce, Len(b.previous_hash)>> \o b.previous_hash
    \o <<b.timestamp, Len(b.transactions)>> \o b.transactions

\* sha256(text).hexdigest()
sha256_hexdigest(text) ==
    [i \in 1..difficulty |-> (SumSeq(text) \div (2 ^ (i - 1))) % 2] \o text

\* Block.compute_hash
compute_hash(b) == sha256_hexdigest(json_dumps(b))

\* str.startswith('0' * n)
startswith_zeros(h, n) == Len(h) >= n /\ \A i \in 1..n : h[i] = 0

\* The digest of the content fields alone (the hash attribute left out).
ContentDigest(b) == compute_hash([b EXCEPT !.hash = NoHash])

\* Blockchain.is_valid_proof with the recomputation left out.
is_valid_proof_NoRecompute(block, block_hash) ==
    startswith_zeros(block_hash, difficulty)

\* Blockchain.is_valid_proof
is_valid_proof(block, block_hash) ==
    /\ startswith_zeros(block_hash, difficulty)
    /\ block_hash = compute_hash(block)

\* Blockchain.last_block
last_block(chain) == chain[Len(chain)]

\* The linkage test of add_block that accepts any previous_hash.
LinkageOk_Any(chain, block) == TRUE

\* add_block, lines 85-88: the linkage test.
LinkageOk(chain, block) == last_block(chain).hash = block.previous_hash

\* An append that leaves the block without its digest.
Sealed_Unhashed(chain, block, proof) == Append(chain, block)

\* add_block, lines 93-94: block.hash = proof; self.chain.append(block)
Sealed(chain, block, proof) == Append(chain, [block EXCEPT !.hash = proof])

\* Blockchain.add_block run without interruption: <<returned, chain>>.
add_block(chain, block, proof) ==
    IF ~LinkageOk(chain, block) THEN <<FALSE, chain>>
    ELSE IF ~is_valid_proof(block, proof) THEN <<FALSE, chain>>
    ELSE <<TRUE, Sealed(chain, block, proof)>>

\* A test of the pool that never finds it empty.
NoPendingWork_Never(pool) == FALSE

\* mine, line 161: not self.unconfirmed_transactions
NoPendingWork(pool) == pool = << >>

\* Blockchain.create_genesis_block: Block(0, [], 0, "0") with its digest.
genesis_block ==
    LET g == Block(0, << >>, 0, Sentinel, 0)
    IN  [g EXCEPT !.hash = compute_hash(g)]

\* Blockchain.__init__ followed by create_genesis_block.
NewBlockchain == [chain |-> <<genesis_block>>, unconfirmed_transactions |-> << >>]

\* Blockchain.proof_of_work run without interruption: the block with the
\* nonce found, and the digest.
RECURSIVE pow_search(_)
pow_search(block) ==
    IF startswith_zeros(compute_hash(block), difficulty)
    THEN [block |-> block, proof |-> compute_hash(block)]
    ELSE pow_search([block EXCEPT !.nonce = @ + 1])

\* A search that begins at the nonce the block arrives with.
proof_of_work_KeepNonce(block) == pow_search(block)

\* Blockchain.proof_of_work, line 108 and the loop.
proof_of_work(block) == pow_search([block EXCEPT !.nonce = 0])

\* The chain of a peer that ran mine n - 1 times on the genesis block, each
\* time with one transaction of its own.
RECURSIVE RemoteChain(_)
RemoteChain(n) ==
    IF n <= 1 THEN <<genesis_block>>
    ELSE LET c == RemoteChain(n - 1)
             h == last_block(c)
             w == proof_of_work(Block(h.index + 1, <<RemoteTx>>, RemoteTime,
                                      h.hash, 0))
         IN  Sealed(c, w.block, w.proof)

\* create_chain_from_dump: replays add_block for every entry of the dump but
\* the first on a fresh genesis-only Blockchain.  raised = TRUE stands for
\* Exception("The chain dump is tampered!!"), raised at the first block that
\* add_block refuses; `at` is the position of that block.
RECURSIVE replay_dump(_, _, _)
replay_dump(chain, chain_dump, idx) ==
    IF idx > Len(chain_dump) THEN [raised |-> FALSE, chain |-> chain, at |-> 0]
    ELSE LET block_data == chain_dump[idx]
             block == Block(block_data.index, block_data.transactions,
                            block_data.timestamp, block_data.previous_hash,
                            block_data.nonce)
             added == add_block(chain, block, block_data.hash)
         IN  IF ~added[1] THEN [raised |-> TRUE, chain |-> chain, at |-> idx]
             ELSE replay_dump(added[2], chain_dump, idx + 1)

create_chain_from_dump(chain_dump) ==
    replay_dump(NewBlockchain.chain, chain_dump, 2)

\* Blockchain.check_chain_validity: "True", "False", or the exception that
\* leaves the loop.  kind is "dict" for the entries of a peer's JSON answer
\* (what consensus passes in) and "Block" for Block objects.  Line 142 reads
\* block.hash, which a dict does not have; on a Block, line 145 deletes the
\* attribute and line 147 looks up cls.is_valid, which Blockchain does not
\* define (the method is is_valid_proof), before anything is compared.  The
\* assignment result = False of line 149 is therefore never reached.
check_chain_validity(chain, kind) ==
    IF chain = << >> THEN "True"
    ELSE IF kind = "dict" THEN "AttributeError"
    ELSE "AttributeError"

\* One content field of block i of a chain changed, the stored hashes kept.
TamperFields == {"transactions", "timestamp", "previous_hash", "nonce"}

Tamper(chain, i, f) ==
    [chain EXCEPT ![i] =
        CASE f = "transactions"  -> [@ EXCEPT !.transactions = Append(@, RemoteTx)]
          [] f = "timestamp"     -> [@ EXCEPT !.timestamp = @ + 1]
          [] f = "previous_hash" -> [@ EXCEPT !.previous_hash = Append(@, 1)]
          [] f = "nonce"         -> [@ EXCEPT !.nonce = @ + 1]]

\* The chains a peer answers /chain with: up to one block longer than the
\* chains the node builds from what it is sent.
GoodChains == {RemoteChain(n) : n \in 1..MaxChain + 1}

TamperedChains ==
    {Tamper(RemoteChain(MaxChain + 1), i, f) :
        i \in 1..MaxChain + 1, f \in TamperFields}

PeerChains == GoodChains \cup TamperedChains

\* response.json() of GET /chain: the length and the chain; a peer may also
\* announce a length and send no block.
ChainResponses ==
    {[length |-> Len(c), chain |-> c] : c \in PeerChains}
    \cup {[length |-> MaxChain + 2, chain |-> << >>]}

\* A digest with the zero prefix that is the digest of no block.
ForgedDigest == [i \in 1..difficulty |-> 0] \o <<9>>

\* An index no chain of the model reaches.
BadIndex == MaxChain + MaxTx + 5

\* The JSON bodies POSTed to /add_block when the node's head is `head`: the
\* block a peer mined on that head; the same with another index; a block
\* mined on the sentinel instead of the head; the mined block with a forged
\* digest; and a block that was not mined (nonce 0, its own digest).
PeerBlockData(head) ==
    LET mined(index, prev) ==
            LET w == proof_of_work(Block(index, <<RemoteTx>>, RemoteTime, prev, 0))
            IN  [w.block EXCEPT !.hash = w.proof]
        honest == mined(head.index + 1, head.hash)
        raw == Block(head.index + 1, <<RemoteTx>>, RemoteTime, head.hash, 0)
    IN  { honest,
          mined(BadIndex, head.hash),
          mined(head.index + 1, Sentinel),
          [honest EXCEPT !.hash = ForgedDigest],
          [raw EXCEPT !.hash = compute_hash(raw)] }

----------------------------------------------------------------------------
VARIABLES
    ledgers,        \* the Blockchain objects constructed so far
    blockchain,     \* the global `blockchain`: a position in ledgers
    peers,          \* the global `peers`
    nextTx,         \* the next transaction submitted (each one is distinct)
    out,            \* what the step just taken sent out: an HTTP answer, an
                    \* exception that ended a request, an announcement
    \* the request GET /mine in flight
    mpc, mself, mblock, mproof, madded, mpos, chain_length,
    current_len, longest_chain, todo, snap,
    taken,          \* the transactions the pool held when mine built its block
    \* the request POST /add_block in flight
    apc, aself, ablock, aproof

mvars == <<mpc, mself, mblock, mproof, madded, mpos, chain_length,
           current_len, longest_chain, todo, snap, taken>>
avars == <<apc, aself, ablock, aproof>>
vars == <<ledgers, blockchain, peers, nextTx, out, mvars, avars>>

\* blockchain.chain and blockchain.unconfirmed_transactions
TheChain == ledgers[blockchain].chain
ThePool == ledgers[blockchain].unconfirmed_transactions

\* An object nothing refers to any more.
Freed == [chain |-> << >>, unconfirmed_transactions |-> << >>]

\* The objects of ls that refs still reach; the others are collected.
Live(ls, refs) == [i \in 1..Len(ls) |-> IF i \in refs THEN ls[i] ELSE Freed]

\* ls with the object b constructed.
Construct(ls, b) == Append(ls, b)

\* The place of the object Construct adds.
NewPlace(ls) == Len(ls) + 1

\* What a step sends out.  op is the function, result its answer or the
\* exception that ended it; block and proof are the arguments of add_block;
\* chain is the chain dump and n the length it was compared with; to is the
\* peers an announcement went to.
Out(op, result, block, proof, chain, n, to) ==
    [op |-> op, result |-> result, block |-> block, proof |-> proof,
     chain |-> chain, n |-> n, to |-> to]

Quiet == Out("", "", NoBlock, NoHash, << >>, 0, {})

\* Module level: blockchain = Blockchain(); blockchain.create_genesis_block();
\* peers = set().  No request is in flight.
MineIdle ==
    /\ mpc = "idle" /\ mself = 0 /\ mblock = NoBlock /\ mproof = NoHash
    /\ madded = FALSE /\ mpos = 0 /\ chain_length = 0
    /\ current_len = 0 /\ longest_chain = << >> /\ todo = {} /\ snap = {}
    /\ taken = << >>

AddBlockIdle ==
    apc = "idle" /\ aself = 0 /\ ablock = NoBlock /\ aproof = NoHash

Init ==
    /\ ledgers = <<NewBlockchain>>
    /\ blockchain = 1
    /\ peers = {}
    /\ nextTx = 1
    /\ out = Quiet
    /\ MineIdle
    /\ AddBlockIdle

\* mine built its block with transactions=self.unconfirmed_transactions: the
\* block holds the very list that is the pool of mself, until line 174 binds
\* the pool to a new list.
MineSharesPool == mpc \in {"pow", "add_block", "proof", "clear"}

\* POST /new_transaction.  A body without author or content is answered 404,
\* any other 201.
\* Otherwise add_new_transaction appends to the list that is the pool, which
\* the block under construction by mine shares, before and after it was
\* appended to the chain.
new_transaction ==
    \E valid \in BOOLEAN :
        IF ~valid
        THEN /\ out' = Quiet
             /\ UNCHANGED <<ledgers, blockchain, peers, nextTx, mvars, avars>>
        ELSE
        /\ nextTx <= MaxTx
        /\ LET pool == Append(ThePool, nextTx)
               shared == MineSharesPool /\ mself = blockchain
           IN  /\ ledgers' =
                    [ledgers EXCEPT ![blockchain] =
                        [unconfirmed_transactions |-> pool,
                         chain |-> IF shared /\ mpos > 0
                                   THEN [@.chain EXCEPT ![mpos].transactions = pool]
                                   ELSE @.chain]]
               /\ mblock' = IF shared /\ mpos = 0
                            THEN [mblock EXCEPT !.transactions = pool]
                            ELSE mblock
        /\ nextTx' = nextTx + 1
        /\ out' = Quiet
        /\ UNCHANGED <<blockchain, peers, mpc, mself, mproof, madded, mpos,
                       chain_length, current_len, longest_chain, todo, snap,
                       taken, avars>>

\* POST /register_node: an empty address is answered 400, any other is added
\* and answered with get_chain().
register_new_peers ==
    \E node_address \in Addrs \cup {""} :
        /\ peers' = IF node_address = "" THEN peers ELSE peers \cup {node_address}
        /\ out' = Quiet
        /\ UNCHANGED <<ledgers, blockchain, nextTx, mvars, avars>>

----------------------------------------------------------------------------
\* The request GET /mine is over: its locals are gone.
MineOver ==
    /\ mpc' = "idle" /\ mself' = 0 /\ mblock' = NoBlock /\ mproof' = NoHash
    /\ madded' = FALSE /\ mpos' = 0 /\ chain_length' = 0
    /\ current_len' = 0 /\ longest_chain' = << >> /\ todo' = {} /\ snap' = {}
    /\ taken' = << >>

\* GET /mine, lines 227-229 and 161-169, and proof_of_work lines 108-110.
MineStart ==
    /\ mpc = "idle"
    /\ IF NoPendingWork(ThePool)
       THEN /\ out' = Out("mine", "No txs to mine", NoBlock, NoHash, << >>, 0, {})
            /\ UNCHANGED <<mpc, mself, mblock, mproof, taken>>
       ELSE LET last == last_block(TheChain)
                new_block == Block(last.index + 1, ThePool, LocalTime, last.hash, 0)
            IN  /\ mself' = blockchain
                /\ mblock' = new_block
                /\ mproof' = compute_hash(new_block)
                /\ mpc' = "pow"
                /\ taken' = ThePool
                /\ out' = Quiet
    /\ UNCHANGED <<ledgers, blockchain, peers, nextTx, madded, mpos,
                   chain_length, current_len, longest_chain, todo, snap, avars>>

\* proof_of_work, lines 111-115: one turn of the loop, or the return.
PowStep ==
    /\ mpc = "pow"
    /\ IF ~startswith_zeros(mproof, difficulty)
       THEN /\ mblock' = [mblock EXCEPT !.nonce = @ + 1]
            /\ mproof' = compute_hash(mblock')
            /\ UNCHANGED mpc
       ELSE /\ mpc' = "add_block"
            /\ UNCHANGED <<mblock, mproof>>
    /\ out' = Quiet
    /\ UNCHANGED <<ledgers, blockchain, peers, nextTx, mself, madded, mpos,
                   chain_length, current_len, longest_chain, todo, snap, taken,
                   avars>>

\* mine's call of add_block, lines 85-88.
MineLinkage ==
    /\ mpc = "add_block"
    /\ IF LinkageOk(ledgers[mself].chain, mblock)
       THEN mpc' = "proof"
       ELSE mpc' = "clear"
    /\ madded' = FALSE
    /\ out' = Quiet
    /\ UNCHANGED <<ledgers, blockchain, peers, nextTx, mself, mblock, mproof,
                   mpos, chain_length, current_len, longest_chain, todo, snap,
                   taken, avars>>

\* mine's call of add_block, lines 90-95.
MineProof ==
    /\ mpc = "proof"
    /\ IF is_valid_proof(mblock, mproof)
       THEN /\ ledgers' = [ledgers EXCEPT ![mself].chain = Sealed(@, mblock, mproof)]
            /\ mpos' = Len(ledgers[mself].chain) + 1
            /\ madded' = TRUE
       ELSE /\ madded' = FALSE
            /\ UNCHANGED <<ledgers, mpos>>
    /\ mpc' = "clear"
    /\ out' = Quiet
    /\ UNCHANGED <<blockchain, peers, nextTx, mself, mblock, mproof,
                   chain_length, current_len, longest_chain, todo, snap, taken,
                   avars>>

\* mine, lines 174-175: the value add_block returned is not looked at.  The
\* request has no further use of self.
MineClear ==
    /\ mpc = "clear"
    /\ ledgers' = Live([ledgers EXCEPT ![mself].unconfirmed_transactions = << >>],
                       {blockchain, aself})
    /\ mpc' = "consensus"
    /\ mself' = 0 /\ mblock' = NoBlock /\ mproof' = NoHash /\ mpos' = 0
    /\ taken' = << >>
    /\ out' = Quiet
    /\ UNCHANGED <<blockchain, peers, nextTx, madded, chain_length,
                   current_len, longest_chain, todo, snap, avars>>

\* GET /mine, line 232, and consensus, lines 337-340.
ConsensusStart ==
    /\ mpc = "consensus"
    /\ chain_length' = Len(TheChain)
    /\ current_len' = Len(TheChain)
    /\ longest_chain' = << >>
    /\ todo' = peers /\ snap' = peers
    /\ mpc' = "fetch"
    /\ out' = Quiet
    /\ UNCHANGED <<ledgers, blockchain, peers, nextTx, mself, mblock, mproof,
                   madded, mpos, taken, avars>>

\* consensus, line 340: the set `peers` grew while the loop iterates over it
\* (RuntimeError: Set changed size during iteration).  The loop takes its
\* first element as soon as it begins; every later one after a request to a
\* peer, during which other requests are served.
ConsensusSetChanged ==
    /\ mpc = "fetch"
    /\ peers # snap /\ todo # snap
    /\ out' = Out("mine", "RuntimeError", NoBlock, NoHash, << >>, 0, {})
    /\ MineOver
    /\ UNCHANGED <<ledgers, blockchain, peers, nextTx, avars>>

\* consensus, lines 340-347: one peer's answer.  The exception raised by
\* check_chain_validity ends consensus and the request.
ConsensusFetch ==
    /\ mpc = "fetch"
    /\ peers = snap \/ todo = snap
    /\ \E node \in todo, response \in ChainResponses :
        LET longer == response.length > current_len
            valid == IF longer THEN check_chain_validity(response.chain, "dict")
                     ELSE "not called"
        IN  IF valid = "AttributeError"
            THEN /\ out' = Out("consensus", "AttributeError", NoBlock, NoHash,
                               response.chain, current_len, {})
                 /\ MineOver
            ELSE /\ todo' = todo \ {node}
                 /\ out' = Quiet
                 /\ IF valid = "True"
                    THEN /\ current_len' = response.length
                         /\ longest_chain' = response.chain
                    ELSE UNCHANGED <<current_len, longest_chain>>
                 /\ UNCHANGED <<mpc, mself, mblock, mproof, madded, mpos,
                                chain_length, snap, taken>>
    /\ UNCHANGED <<ledgers, blockchain, peers, nextTx, avars>>

\* consensus, lines 349-353.  An empty list is not true in Python, so a
\* longest_chain without blocks replaces nothing.
ConsensusEnd ==
    /\ mpc = "fetch"
    /\ peers = snap \/ todo = snap
    /\ todo = {}
    /\ IF longest_chain # << >>
       THEN /\ ledgers' = Live(Construct(ledgers,
                                 [chain |-> longest_chain,
                                  unconfirmed_transactions |-> << >>]),
                               {NewPlace(ledgers), aself})
            /\ blockchain' = NewPlace(ledgers)
            /\ out' = Out("consensus", "True", NoBlock, NoHash, longest_chain,
                          current_len, {})
       ELSE /\ out' = Out("consensus", "False", NoBlock, NoHash, << >>,
                          current_len, {})
            /\ UNCHANGED <<ledgers, blockchain>>
    /\ mpc' = "check"
    /\ UNCHANGED <<peers, nextTx, mself, mblock, mproof, madded, mpos,
                   chain_length, current_len, longest_chain, todo, snap, taken,
                   avars>>

\* GET /mine, line 234, and the answer of line 237 when nothing is announced.
MineCheck ==
    /\ mpc = "check"
    /\ IF chain_length = Len(TheChain)
       THEN /\ mpc' = "announce"
            /\ out' = Quiet
            /\ UNCHANGED <<mself, mblock, mproof, madded, mpos, chain_length,
                           current_len, longest_chain, todo, snap, taken>>
       ELSE /\ out' = Out("mine", "mined, not announced", NoBlock, NoHash, << >>,
                          0, {})
            /\ MineOver
    /\ UNCHANGED <<ledgers, blockchain, peers, nextTx, avars>>

\* announce_new_block(blockchain.last_block), lines 236-237 and 364-369.
MineAnnounce ==
    /\ mpc = "announce"
    /\ out' = Out("mine", "mined, announced", last_block(TheChain), NoHash,
                  << >>, 0, peers)
    /\ MineOver
    /\ UNCHANGED <<ledgers, blockchain, peers, nextTx, avars>>

----------------------------------------------------------------------------
\* The request POST /add_block is over.
AddBlockOver ==
    apc' = "idle" /\ aself' = 0 /\ ablock' = NoBlock /\ aproof' = NoHash

\* POST /add_block, lines 308-316: the Block built from the body, and the
\* ledger the global names at the call.
AddBlockReceive ==
    /\ apc = "idle"
    /\ Len(TheChain) < MaxChain
    /\ \E block_data \in PeerBlockData(last_block(TheChain)) :
        /\ ablock' = Block(block_data.index, block_data.transactions,
                           block_data.timestamp, block_data.previous_hash,
                           block_data.nonce)
        /\ aproof' = block_data.hash
    /\ aself' = blockchain
    /\ apc' = "add_block"
    /\ out' = Quiet
    /\ UNCHANGED <<ledgers, blockchain, peers, nextTx, mvars>>

\* add_block, lines 85-88, and the answer 400 of lines 318-319.
AddBlockLinkage ==
    /\ apc = "add_block"
    /\ IF LinkageOk(ledgers[aself].chain, ablock)
       THEN /\ apc' = "proof"
            /\ out' = Quiet
            /\ UNCHANGED <<ledgers, aself, ablock, aproof>>
       ELSE /\ out' = Out("add_block", "LinkageMismatch", ablock, aproof, << >>,
                          0, {})
            /\ ledgers' = Live(ledgers, {blockchain, mself})
            /\ AddBlockOver
    /\ UNCHANGED <<blockchain, peers, nextTx, mvars>>

\* add_block, lines 90-95, and the answer of lines 318-321.
AddBlockProof ==
    /\ apc = "proof"
    /\ IF is_valid_proof(ablock, aproof)
       THEN /\ ledgers' = Live([ledgers EXCEPT
                                   ![aself].chain = Sealed(@, ablock, aproof)],
                               {blockchain, mself})
            /\ out' = Out("add_block", "added", [ablock EXCEPT !.hash = aproof],
                          aproof, << >>, 0, {})
       ELSE /\ ledgers' = Live(ledgers, {blockchain, mself})
            /\ out' = Out("add_block", "ProofInvalid", ablock, aproof, << >>, 0, {})
    /\ AddBlockOver
    /\ UNCHANGED <<blockchain, peers, nextTx, mvars>>

----------------------------------------------------------------------------
\* The chain dumps the remote node answers POST /register_node with: its
\* chain; its chain with one field of the last block changed; its chain with
\* a last block that was not mined.
UnminedChain ==
    LET c == RemoteChain(MaxChain - 1)
        h == last_block(c)
        raw == Block(h.index + 1, <<RemoteTx>>, RemoteTime, h.hash, 0)
    IN  Append(c, [raw EXCEPT !.hash = compute_hash(raw)])

RegistrationDumps ==
    {RemoteChain(n) : n \in 1..MaxChain}
    \cup {Tamper(RemoteChain(MaxChain), MaxChain, f) : f \in TamperFields}
    \cup {UnminedChain}

\* Each answer with status 200, and what create_chain_from_dump makes of its
\* chain.
Registrations ==
    {[chain |-> c, peers |-> ps, made |-> create_chain_from_dump(c)] :
        c \in RegistrationDumps, ps \in {{}, Addrs}}

\* POST /register_with.  An empty node_address is answered 400 and an answer
\* of the remote node with another status than 200 is passed on.  The
\* exception of create_chain_from_dump leaves the handler before the globals
\* are assigned.
register_with_existing_node ==
    /\ Len(ledgers) < MaxLedgers
    /\ \E status \in {"no address", "200", "500"} :
        IF status # "200"
        THEN /\ out' = Quiet
             /\ UNCHANGED <<ledgers, blockchain, peers>>
        ELSE \E response \in Registrations :
            IF response.made.raised
            THEN /\ out' = Out("register_with", "Exception", NoBlock, NoHash,
                               response.chain, 0, {})
                 /\ UNCHANGED <<ledgers, blockchain, peers>>
            ELSE /\ ledgers' = Live(Construct(ledgers,
                                     [chain |-> response.made.chain,
                                      unconfirmed_transactions |-> << >>]),
                                    {NewPlace(ledgers), mself, aself})
                 /\ blockchain' = NewPlace(ledgers)
                 /\ peers' = peers \cup response.peers
                 /\ out' = Out("register_with", "Registration successfull",
                               NoBlock, NoHash, response.chain, 0, {})
    /\ UNCHANGED <<nextTx, mvars, avars>>

----------------------------------------------------------------------------
Next ==
    \/ new_transaction
    \/ register_new_peers
    \/ MineStart
    \/ PowStep
    \/ MineLinkage
    \/ MineProof
    \/ MineClear
    \/ ConsensusStart
    \/ ConsensusSetChanged
    \/ ConsensusFetch
    \/ ConsensusEnd
    \/ MineCheck
    \/ MineAnnounce
    \/ AddBlockReceive
    \/ AddBlockLinkage
    \/ AddBlockProof
    \/ register_with_existing_node

Spec == Init /\ [][Next]_vars

----------------------------------------------------------------------------
(***************************************************************************)
(* The same node serving one request at a time: every handler runs from    *)
(* its first statement to its answer before the next request is taken.     *)
(***************************************************************************)

\* Blockchain.mine run without interruption: what it returns, the ledger it
\* leaves, the block it built, the digest found and what add_block returned.
mine(self) ==
    IF NoPendingWork(self.unconfirmed_transactions)
    THEN [result |-> FALSE, self |-> self, new_block |-> NoBlock,
          proof |-> NoHash, added |-> FALSE]
    ELSE LET last == last_block(self.chain)
             new_block == Block(last.index + 1, self.unconfirmed_transactions,
                                LocalTime, last.hash, 0)
             w == proof_of_work(new_block)
             added == add_block(self.chain, w.block, w.proof)
         IN  [result |-> TRUE,
              self |-> [chain |-> added[2], unconfirmed_transactions |-> << >>],
              new_block |-> w.block, proof |-> w.proof, added |-> added[1]]

\* response.json() / request.get_json() of the text of one block: the dict
\* with the keys the text holds.
json_loads(text) ==
    LET hasHash == text[1] = 1
        o == IF hasHash THEN 2 + text[2] ELSE 1
        q == o + 3 + text[o + 3]
    IN  [index |-> text[o + 1],
         nonce |-> text[o + 2],
         previous_hash |-> SubSeq(text, o + 4, q),
         timestamp |-> text[q + 1],
         transactions |-> SubSeq(text, q + 3, q + 2 + text[q + 2]),
         hash |-> IF hasHash THEN SubSeq(text, 3, 2 + text[2]) ELSE NoHash]

\* A text of a block in which the nonce reads 0.
json_dumps_NoNonce(b) == json_dumps([b EXCEPT !.nonce = 0])

\* json.dumps of block.__dict__ in the answer of get_chain.
block_json(b) == json_dumps(b)

\* get_chain: the JSON text of the length, of block.__dict__ for every block
\* of the chain, and of the peers.
get_chain(self, ps) ==
    [length |-> Len(self.chain),
     chain |-> [i \in 1..Len(self.chain) |-> block_json(self.chain[i])],
     peers |-> ps]

\* GET /mine served alone: mine, then consensus over the peers, then the
\* announcement.  consensus either raises at the answer of a peer (response)
\* or returns False.
mine_unconfirmed_transactions ==
    /\ mpc = "idle" /\ apc = "idle"
    /\ LET r == mine(ledgers[blockchain])
       IN  IF ~r.result
           THEN /\ out' = Out("mine", "No txs to mine", NoBlock, NoHash, << >>,
                              0, {})
                /\ UNCHANGED ledgers
           ELSE /\ ledgers' = [ledgers EXCEPT ![blockchain] = r.self]
                /\ \E response \in ChainResponses :
                     LET length_before == Len(r.self.chain)
                         raises ==
                            /\ peers # {}
                            /\ response.length > length_before
                            /\ check_chain_validity(response.chain, "dict")
                                  = "AttributeError"
                     IN  out' = IF raises
                                THEN Out("consensus", "AttributeError",
                                         [r.new_block EXCEPT !.hash = r.proof],
                                         r.proof, response.chain,
                                         length_before, {})
                                ELSE Out("mine", "mined, announced",
                                         last_block(r.self.chain), r.proof,
                                         << >>, 0, peers)
    /\ UNCHANGED <<blockchain, peers, nextTx, mvars, avars>>

\* POST /add_block served alone.
verify_and_add_block ==
    /\ mpc = "idle" /\ apc = "idle"
    /\ Len(TheChain) < MaxChain
    /\ \E block_data \in PeerBlockData(last_block(TheChain)) :
        LET block == Block(block_data.index, block_data.transactions,
                           block_data.timestamp, block_data.previous_hash,
                           block_data.nonce)
            proof == block_data.hash
            added == add_block(TheChain, block, proof)
        IN  /\ ledgers' = [ledgers EXCEPT ![blockchain].chain = added[2]]
            /\ out' = Out("add_block",
                          IF added[1] THEN "added" ELSE "discarded",
                          block, proof, << >>, 0, {})
    /\ UNCHANGED <<blockchain, peers, nextTx, mvars, avars>>

\* GET /chain: the answer, as the node that asked reads it.
get_chain_request ==
    /\ mpc = "idle" /\ apc = "idle"
    /\ LET response == get_chain(ledgers[blockchain], peers)
       IN  out' = Out("get_chain", "", NoBlock, NoHash,
                      [i \in 1..Len(response.chain) |->
                            json_loads(response.chain[i])],
                      response.length, {})
    /\ UNCHANGED <<ledgers, blockchain, peers, nextTx, mvars, avars>>

SeqNext ==
    \/ new_transaction
    \/ register_new_peers
    \/ mine_unconfirmed_transactions
    \/ verify_and_add_block
    \/ get_chain_request
    \/ register_with_existing_node

SeqSpec == Init /\ [][SeqNext]_vars

----------------------------------------------------------------------------
\* The elements of a sequence.
Range(s) == {s[i] : i \in 1..Len(s)}

\* The transactions in the blocks of a chain.
ChainTxs(chain) == UNION {Range(chain[i].transactions) : i \in 1..Len(chain)}

\* The stored hash of b has the zero prefix and is the digest of b's content.
Admissible(b) ==
    /\ startswith_zeros(b.hash, difficulty)
    /\ b.hash = ContentDigest(b)

\* A chain dump that reconstructs, block for block.
ValidChain(c) ==
    /\ c # << >>
    /\ ~create_chain_from_dump(c).raised
    /\ create_chain_from_dump(c).chain = c

\* The step is add_block refusing a block, called by POST /add_block or by mine.
PeerRefused ==
    /\ apc \in {"add_block", "proof"}
    /\ apc' = "idle"
    /\ out'.op = "add_block"
    /\ out'.result \in {"LinkageMismatch", "ProofInvalid"}

MineRefused == mpc \in {"add_block", "proof"} /\ mpc' = "clear" /\ ~madded'

\* No Blockchain object that is still in use differs after the step.
LedgersUntouched ==
    /\ DOMAIN ledgers' = DOMAIN ledgers
    /\ blockchain' = blockchain
    /\ \A i \in DOMAIN ledgers :
        \/ ledgers'[i] = ledgers[i]
        \/ ledgers'[i] = Freed /\ i \notin {blockchain, mself}

(***************************************************************************)
(* C1: the pending pool of the node loses transactions only by a block     *)
(* admission that succeeded and whose block holds the transactions         *)
(* removed: every transaction that leaves the pool in a step is in a block *)
(* of the node's chain after the step, and mine leaves the pool alone      *)
(* when its add_block returned False.                                      *)
(***************************************************************************)
C1_PoolClearedOnlyByAdmission ==
    [][ /\ (Range(ThePool) \ Range(ThePool')) \subseteq ChainTxs(TheChain')
        /\ (mpc = "clear" /\ mpc' = "consensus" /\ ~madded)
            => ledgers'[mself].unconfirmed_transactions
                 = ledgers[mself].unconfirmed_transactions ]_vars

(***************************************************************************)
(* C2: add_block refuses every block whose previous_hash is not the hash   *)
(* of the head, with LinkageMismatch, whatever the digest; and a refusal,  *)
(* for the linkage or for the proof, changes no chain, no pool and not the *)
(* candidate, which still has no hash.                                     *)
(***************************************************************************)
C2_RejectionMutatesNothing ==
    [][ /\ (apc = "add_block" /\ apc' # apc
            /\ ablock.previous_hash # last_block(ledgers[aself].chain).hash)
            => (out'.op = "add_block" /\ out'.result = "LinkageMismatch")
        /\ (mpc = "add_block" /\ mpc' # mpc
            /\ mblock.previous_hash # last_block(ledgers[mself].chain).hash)
            => MineRefused
        /\ PeerRefused
            => (LedgersUntouched /\ out'.block = ablock /\ ablock.hash = NoHash)
        /\ MineRefused
            => (ledgers' = ledgers /\ blockchain' = blockchain
                /\ mblock' = mblock /\ mblock.hash = NoHash) ]_vars

\* add_block refused, for the linkage alone, a block that was mined: the
\* digest sent with it has the zero prefix and is the digest of its content.
C2_Witness ==
    /\ out.op = "add_block"
    /\ out.result = "LinkageMismatch"
    /\ is_valid_proof(out.block, out.proof)

(***************************************************************************)
(* C3: every block add_block appends to a chain, called by mine, by POST   *)
(* /add_block or by create_chain_from_dump, has as its hash a digest with  *)
(* `difficulty` leading zeros that is the digest recomputed from the       *)
(* block's content fields.                                                 *)
(***************************************************************************)
C3_AcceptedDigestAdmissible ==
    [][ \A i \in DOMAIN ledgers' :
          \A k \in 2..Len(ledgers'[i].chain) :
            (i \notin DOMAIN ledgers \/ k > Len(ledgers[i].chain))
                => Admissible(ledgers'[i].chain[k]) ]_vars

\* A block sent to POST /add_block was accepted.
C3_Witness ==
    /\ out.op = "add_block"
    /\ out.result = "added"
    /\ out.block \in Range(TheChain)

(***************************************************************************)
(* C4: in the node's chain every block but the first has as previous_hash  *)
(* the hash of the block before it.                                        *)
(***************************************************************************)
C4_Linkage ==
    \A i \in 2..Len(TheChain) : TheChain[i].previous_hash = TheChain[i - 1].hash

(***************************************************************************)
(* C5: the block at position i of the node's chain (from 0) has index i.   *)
(***************************************************************************)
C5_Indices ==
    \A i \in 1..Len(TheChain) : TheChain[i].index = i - 1

(***************************************************************************)
(* C6: every block of the node's chain, the genesis block included, has a  *)
(* hash with `difficulty` leading zeros that is the digest of the block's  *)
(* current content fields.                                                 *)
(***************************************************************************)
C6_SealedHashes ==
    \A i \in 1..Len(TheChain) : Admissible(TheChain[i])

(***************************************************************************)
(* C7: when consensus is given, by a peer, a chain that is longer than the *)
(* local one and reconstructs, it ends with True and the node's chain is   *)
(* that chain.                                                             *)
(***************************************************************************)
C7_LongestValidChainAdopted ==
    (out.op = "consensus" /\ Len(out.chain) > out.n /\ ValidChain(out.chain))
        => (out.result = "True" /\ TheChain = out.chain)

(***************************************************************************)
(* C8: when consensus is given a chain that is longer than the local one   *)
(* and does not reconstruct, no exception leaves consensus.                *)
(***************************************************************************)
C8_InvalidCandidateDiscarded ==
    (out.op = "consensus" /\ Len(out.chain) > out.n /\ ~ValidChain(out.chain))
        => out.result \in {"True", "False"}

(***************************************************************************)
(* C9: when a block of the dump after the first fails admission, the       *)
(* reconstruction is answered with an error value and not with an          *)
(* exception, and the node's ledgers and peers stay as they were.          *)
(***************************************************************************)
C9_TamperedDumpReported ==
    [][ (out'.op = "register_with" /\ create_chain_from_dump(out'.chain).raised)
            => (out'.result # "Exception"
                /\ ledgers' = ledgers /\ blockchain' = blockchain
                /\ peers' = peers) ]_vars

(***************************************************************************)
(* C10: check_chain_validity returns False for a chain of admitted blocks  *)
(* in which one content field of one block was changed after sealing.      *)
(***************************************************************************)
C10_TamperedChainInvalid ==
    (out.op = "consensus" /\ Len(out.chain) > out.n
     /\ out.chain \in TamperedChains)
        => check_chain_validity(out.chain, "dict") = "False"

(***************************************************************************)
(* C11: GET /mine on a node whose pool is empty is answered "No txs to     *)
(* mine": mine builds no block, the chain and the pool stay as they were,  *)
(* and the request is over without consensus and without an announcement.  *)
(***************************************************************************)
C11_EmptyPoolNoOp ==
    [][ (mpc = "idle" /\ ThePool = << >>)
            => /\ mpc' = "idle" /\ mblock' = NoBlock
               /\ (out'.op = "mine")
                    => /\ out'.result = "No txs to mine"
                       /\ out'.to = {}
                       /\ ledgers' = ledgers /\ blockchain' = blockchain ]_vars

\* GET /mine was answered "No txs to mine" on an empty pool.
C11_Witness ==
    /\ out.op = "mine" /\ out.result = "No txs to mine"
    /\ mpc = "idle" /\ ThePool = << >>

(***************************************************************************)
(* C12: GET /mine served alone on a ledger with head h and a pool P that   *)
(* is not empty leaves a chain that is the old chain with one block b      *)
(* appended, where b.index = h.index + 1, b.transactions = P,              *)
(* b.previous_hash = h.hash and b.hash is a digest with the zero prefix    *)
(* that is the digest of b's content; the pool is empty afterwards.        *)
(***************************************************************************)
C12_MiningPostcondition ==
    [][ (out'.op \in {"mine", "consensus"} /\ ThePool # << >>)
            => LET h == last_block(TheChain)
                   after == ledgers'[blockchain]
                   b == last_block(after.chain)
               IN  /\ out'.result # "No txs to mine"
                   /\ after.chain = Append(TheChain, b)
                   /\ b.index = h.index + 1
                   /\ b.transactions = ThePool
                   /\ b.previous_hash = h.hash
                   /\ Admissible(b)
                   /\ after.unconfirmed_transactions = << >> ]_vars

\* mine put two transactions into one block, on a head that a peer sent.
C12_Witness ==
    /\ out.op = "mine" /\ out.result = "mined, announced"
    /\ Len(TheChain) = 3
    /\ out.block = TheChain[3]
    /\ Len(out.block.transactions) = 2
    /\ ThePool = << >>

(***************************************************************************)
(* C13: when mine has appended its block, it removes from the pool the     *)
(* transactions the pool held when the block was built and no other: what  *)
(* was queued after that is still in the pool when mine returns.           *)
(***************************************************************************)
C13_LaterTransactionsStay ==
    [][ (mpc = "clear" /\ mpc' = "consensus" /\ madded /\ mself = blockchain)
            => LET pool == ledgers[mself].unconfirmed_transactions
               IN  ledgers'[mself].unconfirmed_transactions
                     = SubSeq(pool, Len(taken) + 1, Len(pool)) ]_vars

(***************************************************************************)
(* C14: the transactions of the block mine builds are fixed when the block *)
(* is built: no step changes the transactions of the candidate while mine  *)
(* works on it, nor the transactions of a block that is in a chain.        *)
(***************************************************************************)
C14_CandidatePrivate ==
    [][ /\ (mblock # NoBlock /\ mblock' # NoBlock)
            => mblock'.transactions = mblock.transactions
        /\ \A i \in DOMAIN ledgers :
             \A k \in 1..Len(ledgers[i].chain) :
                ledgers'[i] # Freed
                    => ledgers'[i].chain[k].transactions
                         = ledgers[i].chain[k].transactions ]_vars

(***************************************************************************)
(* C15: a step that changes the node's chain either appends one block to   *)
(* it, or replaces it by a chain that reconstructs and is strictly longer. *)
(* No step, POST /register_with included, puts a chain of the same or a    *)
(* smaller length in its place.                                            *)
(***************************************************************************)
C15_AppendOrLongerReplacement ==
    [][ TheChain' # TheChain
            => \/ /\ Len(TheChain') = Len(TheChain) + 1
                  /\ SubSeq(TheChain', 1, Len(TheChain)) = TheChain
               \/ /\ Len(TheChain') > Len(TheChain)
                  /\ ValidChain(TheChain') ]_vars

(***************************************************************************)
(* C16: a request GET /mine whose mine built a block, served alone, ends   *)
(* with the announcement of the block to the peers if and only if its      *)
(* consensus did not replace the node's ledger.                            *)
(***************************************************************************)
C16_AnnounceIffUnchanged ==
    [][ (out'.op \in {"mine", "consensus"} /\ ~NoPendingWork(ThePool))
            => ((out'.op = "mine" /\ out'.result = "mined, announced"
                 /\ out'.to = peers)
                    <=> blockchain' = blockchain) ]_vars

(***************************************************************************)
(* C17: the digest proof_of_work returns to mine is the digest of the      *)
(* block at the nonce it left in the block, it has `difficulty` leading    *)
(* zeros and no smaller nonce gives such a digest; the search gives the    *)
(* same nonce and digest whatever nonce the block arrives with; and the    *)
(* chain after mine is what add_block makes of the block and digest found: *)
(* the search itself changed nothing of the ledger.                        *)
(***************************************************************************)
C17_SmallestNonce ==
    [][ (out'.op \in {"mine", "consensus"} /\ out'.block # NoBlock)
            => LET found == [out'.block EXCEPT !.hash = NoHash]
                   at(n) == [found EXCEPT !.nonce = n]
               IN  /\ out'.proof = compute_hash(found)
                   /\ startswith_zeros(out'.proof, difficulty)
                   /\ \A n \in 0..found.nonce - 1 :
                        ~startswith_zeros(compute_hash(at(n)), difficulty)
                   /\ \A n \in 0..MaxNonce :
                        proof_of_work(at(n))
                            = [block |-> found, proof |-> out'.proof]
                   /\ ledgers'[blockchain].chain
                        = add_block(TheChain, found, out'.proof)[2] ]_vars

\* mine got a nonce that is not the first one tried.
C17_Witness ==
    /\ out.op = "mine" /\ out.result = "mined, announced"
    /\ out.block.nonce > 0
    /\ out.block = last_block(TheChain)

(***************************************************************************)
(* C18: compute_hash gives the same digest for a block before and after    *)
(* its hash attribute is assigned: recomputing the digest of any block of  *)
(* the node's chain, the genesis block included, gives its stored hash.    *)
(***************************************************************************)
C18_DigestIgnoresHashField ==
    \A i \in 1..Len(TheChain) :
        /\ compute_hash(TheChain[i]) = ContentDigest(TheChain[i])
        /\ compute_hash(TheChain[i]) = TheChain[i].hash

(***************************************************************************)
(* C19: on a node that serves its requests one at a time,                  *)
(* create_chain_from_dump of the chain in the answer of GET /chain raises  *)
(* nothing and makes a chain that is, block for block and field for field, *)
(* the chain of the node, in a ledger whose pool is that of a new one.     *)
(***************************************************************************)
C19_DumpRoundTrip ==
    out.op = "get_chain"
        => LET made == create_chain_from_dump(out.chain)
           IN  /\ out.n = Len(TheChain)
               /\ ~made.raised
               /\ made.chain = TheChain
               /\ NewBlockchain.unconfirmed_transactions = << >>

\* The chain dumped holds a block sent by a peer and a block mined here with
\* a nonce that is not 0, while a transaction is pending.
C19_Witness ==
    /\ out.op = "get_chain"
    /\ Len(out.chain) = 3
    /\ out.chain[2].transactions = <<RemoteTx>>
    /\ out.chain[3].timestamp = LocalTime
    /\ \E k \in 2..3 : out.chain[k].nonce > 0
    /\ ThePool # << >>

(***************************************************************************)
(* C20: when node B answers a block that node A announced (POST            *)
(* /add_block on B): if the block was mined on the head B's chain has at   *)
(* that moment and its digest is valid, B accepts it and B's chain is the  *)
(* chain A has, B's chain before with the sealed block appended; if B's    *)
(* head is another block by then, B rejects it and B's chain is unchanged. *)
(***************************************************************************)
C20_AnnouncedBlockConverges ==
    [][ (apc \in {"add_block", "proof"} /\ apc' = "idle" /\ aself = blockchain
         /\ blockchain' = blockchain)
            => LET B == ledgers[aself].chain
                   moved == last_block(B).hash # ablock.previous_hash
               IN  /\ moved
                        => /\ out'.result \in {"LinkageMismatch", "ProofInvalid"}
                           /\ ledgers'[aself].chain = B
                   /\ (~moved /\ is_valid_proof(ablock, aproof))
                        => /\ out'.result = "added"
                           /\ ledgers'[aself].chain = Sealed(B, ablock, aproof)
       ]_vars

====
